---- MODULE Spec2Model ----
(***************************************************************************)
(* A model of the read-only blockstore client (package blockstore and     *)
(* package shred): the key-value columns the client reads, the shred      *)
(* helpers, the completed-range computation and the block reconstruction  *)
(* path GetBlock -> GetSlotEntries -> GetEntriesInDataBlock -> Deshred.    *)
(*                                                                         *)
(* Integers are scaled: a uint32 has W32 bits and a uint64 has W64 bits,   *)
(* and every narrowing or increment reduces modulo the width.             *)
(***************************************************************************)
EXTENDS Integers, Sequences, FiniteSets, TLC

VARIABLES db, held, call, primary, handle

vars == <<db, held, call, primary, handle>>

\* The field names of the model's records. Every record constructor lists its
\* fields in this order, the order in which the checker keeps them.
FieldOrder ==
    [BlockHash |-> 0, CompletedDataIndexes |-> 0, Consumed |-> 0, EndIndex |-> 0,
     Hash |-> 0, LastIndex |-> 0, ParentSlot |-> 0, StartIndex |-> 0,
     Transactions |-> 0, a |-> 0, b |-> 0, block |-> 0, body |-> 0, caught |-> 0,
     cr |-> 0, data |-> 0, dead |-> 0, entries |-> 0, err |-> 0, flag |-> 0,
     flags |-> 0, fn |-> 0, full |-> 0, got |-> 0, hasBlock |-> 0, height |-> 0,
     index |-> 0, isFull |-> 0, k |-> 0, kind |-> 0, leak |-> 0, len |-> 0,
     list |-> 0, meta |-> 0, mode |-> 0, n |-> 0, nil |-> 0, numShreds |-> 0,
     ok |-> 0, opened |-> 0, payload |-> 0, pc |-> 0, ranges |-> 0, res |-> 0,
     root |-> 0, shred |-> 0, size |-> 0, slot |-> 0, snapshot |-> 0, val |-> 0,
     variant |-> 0, visited |-> 0, yes |-> 0]

(***************************************************************************)
(* Bounds.                                                                 *)
(***************************************************************************)
\* bits of the scaled uint32 and uint64
W32 == 4
W64 == 5
\* largest shred index stored in the data-shred column
MaxIdx == 2
\* largest value of the inputs of the pure range computation
MaxVal == 3
\* longest shred sequence handed to Deshred directly
MaxShreds == 3
\* number of engine resources that completed calls may still hold
MaxHeld == 1

RECURSIVE Pow2(_)
Pow2(n) == IF n = 0 THEN 1 ELSE 2 * Pow2(n - 1)

U32 == Pow2(W32)
U64 == Pow2(W64)
\* math.MaxUint64, the "unknown" value of LastIndex and ParentSlot
MaxUint64 == U64 - 1

\* uint32(x)
ToU32(x) == x % U32
\* uint64 arithmetic
Add64(x, y) == (x + y) % U64
Sub64(x, y) == (x - y + U64) % U64

Min(a, b) == IF a < b THEN a ELSE b

\* x & mask on bytes, bit by bit
RECURSIVE BitAnd(_, _)
BitAnd(x, y) ==
    IF x = 0 \/ y = 0 THEN 0
    ELSE (x % 2) * (y % 2) + 2 * BitAnd(x \div 2, y \div 2)

RECURSIVE Concat(_)
Concat(ss) == IF ss = <<>> THEN <<>> ELSE Head(ss) \o Concat(Tail(ss))

\* the elements of a set of numbers as an ascending sequence
RECURSIVE Ascending(_)
Ascending(S) ==
    IF S = {} THEN <<>>
    ELSE LET m == CHOOSE x \in S : \A y \in S : x <= y
         IN <<m>> \o Ascending(S \ {m})

(***************************************************************************)
(* Package shred.                                                          *)
(*                                                                         *)
(* The bytes of a shred are a record of the fields the client reads:       *)
(*   len      the length of the byte slice                                 *)
(*   variant  byte 64                                                      *)
(*   index    the common header's index (uint32)                           *)
(*   flags    the data header's flags byte                                 *)
(*   size     the data header's size                                       *)
(*   body     the bytes that follow the data header                        *)
(***************************************************************************)
LegacyCodeID == 90
LegacyDataID == 165
MerkleMask == 240
MerkleCodeID == 64
MerkleDataID == 128

FlagShredTickReferenceMask == 63
FlagDataCompleteShred == 64
FlagLastShredInSlot == 192

\* the offset of byte 64 plus one: the shortest slice that holds the variant
VariantLen == 65
\* the length of the common header and the data header
DataHeaderLen == 88

NilShred == [body |-> <<>>, flags |-> 0, index |-> 0, kind |-> "nil", len |-> 0, size |-> 0]

FromPayload(kind, b) ==
    [body |-> b.body, flags |-> b.flags, index |-> b.index, kind |-> kind,
     len |-> b.len, size |-> b.size]

\* NewShredFromSerialized that compares the variant byte with the Merkle
\* discriminants without masking it
NewShredFromSerializedUnmasked(b) ==
    IF b.len < VariantLen THEN NilShred
    ELSE IF b.variant = LegacyCodeID THEN FromPayload("LegacyCode", b)
    ELSE IF b.variant = LegacyDataID THEN FromPayload("LegacyData", b)
    ELSE IF b.variant = MerkleCodeID THEN FromPayload("MerkleCode", b)
    ELSE IF b.variant = MerkleDataID THEN FromPayload("MerkleData", b)
    ELSE NilShred

NewShredFromSerialized(b) ==
    IF b.len < VariantLen THEN NilShred
    ELSE IF b.variant = LegacyCodeID THEN FromPayload("LegacyCode", b)
    ELSE IF b.variant = LegacyDataID THEN FromPayload("LegacyData", b)
    ELSE IF BitAnd(b.variant, MerkleMask) = MerkleCodeID THEN FromPayload("MerkleCode", b)
    ELSE IF BitAnd(b.variant, MerkleMask) = MerkleDataID THEN FromPayload("MerkleData", b)
    ELSE NilShred

IsDataShred(s) == s.kind \in {"LegacyData", "MerkleData"}

\* Shred.Data(): the payload between the data header and size, or not ok
Data(s) ==
    IF IsDataShred(s) /\ s.size >= DataHeaderLen /\ s.size <= s.len
    THEN [data |-> SubSeq(s.body, 1, s.size - DataHeaderLen), ok |-> TRUE]
    ELSE [data |-> <<>>, ok |-> FALSE]

\* Shred.DataComplete()
DataComplete(s) ==
    IsDataShred(s) /\ BitAnd(s.flags, FlagDataCompleteShred) # 0

\* DataHeader.LastInSlot()
LastInSlot(flags) == BitAnd(flags, FlagLastShredInSlot) # 0

\* the alignment loop of Deshred: the first i (from 0) whose index is off
RECURSIVE Aligned(_, _, _)
Aligned(shreds, index, i) ==
    IF i > Len(shreds) THEN TRUE
    ELSE IF shreds[i].index # ToU32(index + (i - 1)) THEN FALSE
    ELSE Aligned(shreds, index, i + 1)

\* the payload loop of Deshred
RECURSIVE WriteData(_, _, _)
WriteData(shreds, i, buf) ==
    IF i > Len(shreds) THEN [err |-> "nil", payload |-> buf]
    ELSE LET d == Data(shreds[i])
         IN IF ~d.ok THEN [err |-> "invalid data shred", payload |-> <<>>]
            ELSE WriteData(shreds, i + 1, buf \o d.data)

Deshred(shreds) ==
    IF Len(shreds) = 0 THEN [err |-> "ErrTooFewDataShreds", payload |-> <<>>]
    ELSE LET aligned == Aligned(shreds, shreds[1].index, 1)
             lastShred == shreds[Len(shreds)]
             dataComplete == DataComplete(lastShred) \/ LastInSlot(lastShred.flags)
         IN IF ~dataComplete \/ ~aligned
            THEN [err |-> "ErrTooFewDataShreds", payload |-> <<>>]
            ELSE WriteData(shreds, 1, <<>>)

(***************************************************************************)
(* Package blockstore: keys, columns and types.                            *)
(*                                                                         *)
(* A handle's view d of the database is a record of columns, each a        *)
(* function from the keys it holds to their values:                        *)
(*   meta    slot key -> SlotMeta                                          *)
(*   root    the set of slot keys of the root column                      *)
(*   dead    slot key -> the value bytes                                   *)
(*   height  slot key -> the value bytes                                   *)
(*   shred   shred key -> the bytes of a data shred                        *)
(* A big-endian key is the number whose order is the order of its bytes.   *)
(***************************************************************************)
MakeSlotKey(slot) == slot % U64

ParseSlotKey(key) == key % U64

MakeShredKey(slot, index) == (slot % U64) * U64 + (index % U64)

\* binary.BigEndian.Uint64 of the first and of the second half of a shred key
KeySlot(key) == key \div U64
KeyIndex(key) == key % U64

\* binary.LittleEndian.Uint64 of a value
RECURSIVE LittleEndian(_)
LittleEndian(bytes) ==
    IF bytes = <<>> THEN 0 ELSE Head(bytes) + 256 * LittleEndian(Tail(bytes))

NilMeta == [CompletedDataIndexes |-> <<>>, Consumed |-> 0, LastIndex |-> 0, ParentSlot |-> 0,
            nil |-> TRUE]

SlotMeta(consumed, lastIndex, parentSlot, completed) ==
    [CompletedDataIndexes |-> completed, Consumed |-> consumed, LastIndex |-> lastIndex,
     ParentSlot |-> parentSlot, nil |-> FALSE]

\* SlotMeta.IsFull on a meta that is not nil
IsFull(s) ==
    IF s.LastIndex = MaxUint64 THEN FALSE
    ELSE s.Consumed = Add64(s.LastIndex, 1)

NoBlock == [BlockHash |-> 0, ParentSlot |-> 0, Transactions |-> <<>>]

CompletedRange(startIndex, endIndex) == [EndIndex |-> endIndex, StartIndex |-> startIndex]

\* the transactions carried by the entry that the byte x encodes
TxOf(x) == [k \in 1..(x % 3) |-> 10 * x + k]

Entry(x) == [Hash |-> x, Transactions |-> TxOf(x)]

\* the decoder on { Count uint64 sizeof=Entries; Entries []Entry }: the first
\* byte is the count, every further byte an entry; too few bytes is an error
Decode(payload) ==
    IF payload = <<>> THEN [entries |-> <<>>, err |-> "decode"]
    ELSE LET count == Head(payload)
             rest == Tail(payload)
         IN IF Len(rest) < count
            THEN [entries |-> [k \in 1..Len(rest) |-> Entry(rest[k])], err |-> "decode"]
            ELSE [entries |-> [k \in 1..count |-> Entry(rest[k])], err |-> "nil"]

(***************************************************************************)
(* Engine calls. NoKey is the position of an iterator that is not valid.   *)
(***************************************************************************)
NoKey == 0 - 1

\* Iterator.Seek: the first key of the column at or after key
Seek(col, key) ==
    LET after == {k \in DOMAIN col : k >= key}
    IN IF after = {} THEN NoKey
       ELSE CHOOSE k \in after : \A j \in after : k <= j

\* Iterator.SeekToLast on a set of keys
SeekToLast(keys) ==
    IF keys = {} THEN NoKey
    ELSE CHOOSE k \in keys : \A j \in keys : j <= k

\* what a call still holds when it returns: the resources it acquired
\* (iterators opened, value slices that exist) less those it released
Leak(acquired, released) == acquired - released

(***************************************************************************)
(* Package blockstore: the read operations.                                *)
(***************************************************************************)
MaxRoot(d) ==
    LET iter == SeekToLast(d.root)
        leak == Leak(1, 1)
    IN IF iter = NoKey
       THEN [err |-> "ErrNotFound", leak |-> leak, val |-> 0]
       ELSE [err |-> "nil", leak |-> leak, val |-> ParseSlotKey(iter)]

GetBlockHeight(d) ==
    LET iter == SeekToLast(DOMAIN d.height)
        leak == Leak(1, 1)
    IN IF iter = NoKey
       THEN [err |-> "ErrNotFound", leak |-> leak, val |-> 0]
       ELSE [err |-> "nil", leak |-> leak, val |-> LittleEndian(d.height[iter])]

\* a point read decoded with bincode: a missing row gives a nil value and the
\* error for "no row found", the slice of a row that exists is freed
getBincode(col, key) ==
    IF key \notin DOMAIN col
    THEN [err |-> "ErrNotFound", leak |-> Leak(0, 0), meta |-> NilMeta]
    ELSE [err |-> "nil", leak |-> Leak(1, 1), meta |-> col[key]]

GetSlotMeta(d, slot) ==
    getBincode(d.meta, MakeSlotKey(slot))

\* the slice of a row that exists is never freed
IsSlotDead(d, slot) ==
    LET key == MakeSlotKey(slot)
        exists == key \in DOMAIN d.dead
    IN [err |-> "nil",
        leak |-> Leak(IF exists THEN 1 ELSE 0, 0),
        val |-> exists /\ d.dead[key] = <<1>>]

\* sliceSortedByRange that keeps a last element equal to stop
sliceSortedByRangeInclusive(list, start, stop) ==
    LET RECURSIVE DropHead(_)
        DropHead(l) == IF Len(l) > 0 /\ l[1] < start THEN DropHead(Tail(l)) ELSE l
        RECURSIVE DropTail(_)
        DropTail(l) ==
            IF Len(l) > 0 /\ l[Len(l)] > stop THEN DropTail(SubSeq(l, 1, Len(l) - 1))
            ELSE l
    IN DropTail(DropHead(list))

sliceSortedByRange(list, start, stop) ==
    LET RECURSIVE DropHead(_)
        DropHead(l) == IF Len(l) > 0 /\ l[1] < start THEN DropHead(Tail(l)) ELSE l
        RECURSIVE DropTail(_)
        DropTail(l) ==
            IF Len(l) > 0 /\ l[Len(l)] >= stop THEN DropTail(SubSeq(l, 1, Len(l) - 1))
            ELSE l
    IN DropTail(DropHead(list))

getCompletedDataRanges(startIndex, completedDataIndexes, consumed) ==
    LET trimmed == sliceSortedByRange(completedDataIndexes, startIndex, consumed)
        RECURSIVE Loop(_, _, _)
        Loop(i, begin, ranges) ==
            IF i > Len(trimmed) THEN ranges
            ELSE Loop(i + 1, ToU32(begin + 1),
                      Append(ranges, CompletedRange(begin, trimmed[i])))
    IN Loop(1, startIndex, <<>>)

getCompletedRanges(d, slot, startIndex) ==
    LET got == GetSlotMeta(d, slot)
    IN IF got.err = "ErrNotFound"
       THEN [err |-> "nil", leak |-> got.leak, meta |-> got.meta, ranges |-> <<>>]
       ELSE IF got.err # "nil"
       THEN [err |-> got.err, leak |-> got.leak, meta |-> NilMeta, ranges |-> <<>>]
       ELSE [err |-> "nil",
             leak |-> got.leak,
             meta |-> got.meta, ranges |-> getCompletedDataRanges(ToU32(startIndex),
                                               got.meta.CompletedDataIndexes,
                                               ToU32(got.meta.Consumed))]

\* the end of GetEntriesInDataBlock: the entries the decoder returns
decodedEntries(decoded, visited, leak) ==
    [entries |-> decoded.entries, err |-> decoded.err, leak |-> leak, visited |-> visited]

\* the end of GetEntriesInDataBlock: the error of Deshred, or the decoded entries
decodeEntries(deshredded, visited, leak) ==
    IF deshredded.err # "nil"
    THEN [entries |-> <<>>, err |-> deshredded.err, leak |-> leak, visited |-> visited]
    ELSE decodedEntries(Decode(deshredded.payload), visited, leak)

\* The iterator is opened and positioned by Seek; the loop reads the row under
\* the iterator for every i of startIndex..endIndex and never moves it, and no
\* path closes it.
GetEntriesInDataBlock(d, slot, startIndex, endIndex) ==
    LET iter == Seek(d.shred, MakeShredKey(slot, startIndex))
        leak == Leak(1, 0)
        Fail(e, visited) ==
            [entries |-> <<>>, err |-> e, leak |-> leak, visited |-> visited]
        RECURSIVE Loop(_, _, _)
        Loop(i, shreds, visited) ==
            IF i > endIndex
            THEN decodeEntries(Deshred(shreds), visited, leak)
            ELSE LET valid == iter # NoKey
                     index == IF valid THEN KeyIndex(iter) ELSE 0
                 IN IF ~valid \/ index # i
                    THEN Fail("ErrInvalidShredData", visited)
                    ELSE LET sh == NewShredFromSerialized(d.shred[iter])
                         IN IF sh = NilShred
                            THEN Fail("failed to deserialize shred", visited)
                            ELSE Loop(i + 1, Append(shreds, sh), Append(visited, iter))
    IN Loop(startIndex, <<>>, <<>>)

\* numShreds without the final + 1
numShredsNoPlusOne(completedRanges, startIndex) ==
    IF Len(completedRanges) > 0
    THEN Sub64(completedRanges[Len(completedRanges)].EndIndex, startIndex)
    ELSE 0

\* numShreds of GetSlotEntries
numShredsOf(completedRanges, startIndex) ==
    IF Len(completedRanges) > 0
    THEN Add64(Sub64(completedRanges[Len(completedRanges)].EndIndex, startIndex), 1)
    ELSE 0

\* GetSlotEntries after getCompletedRanges returned cr; dead is what IsSlotDead
\* returns, which is called when allowDeadSlots is set.  The result carries,
\* next to the return values, the local completedRanges.
slotEntries(d, slot, startIndex, allowDeadSlots, cr, dead) ==
    LET completedRanges == cr.ranges
        Return(e, entries, numShreds, isFull, leak) ==
            [entries |-> entries, err |-> e, isFull |-> isFull,
             leak |-> leak, numShreds |-> numShreds, ranges |-> completedRanges]
        leak0 == cr.leak + (IF allowDeadSlots THEN dead.leak ELSE 0)
        numShreds == numShredsOf(completedRanges, startIndex)
        RECURSIVE Loop(_, _, _), Step(_, _, _, _)
        Loop(k, entries, leak) ==
            IF k > Len(completedRanges)
            THEN IF cr.meta.nil
                 THEN Return("panic", <<>>, 0, FALSE, leak)
                 ELSE Return("nil", entries, numShreds, IsFull(cr.meta), leak)
            ELSE Step(k, entries, leak,
                      GetEntriesInDataBlock(d, slot, completedRanges[k].StartIndex,
                                            completedRanges[k].EndIndex))
        Step(k, entries, leak, sub) ==
            IF sub.err # "nil"
            THEN Return(sub.err, entries, numShreds, FALSE, leak + sub.leak)
            ELSE Loop(k + 1, entries \o sub.entries, leak + sub.leak)
    IN IF cr.err # "nil" THEN Return(cr.err, <<>>, 0, FALSE, cr.leak)
       ELSE IF allowDeadSlots /\ dead.err # "nil" THEN Return(dead.err, <<>>, 0, FALSE, leak0)
       ELSE IF allowDeadSlots /\ dead.val THEN Return("ErrDeadSlot", <<>>, 0, FALSE, leak0)
       ELSE Loop(1, <<>>, leak0)

GetSlotEntries(d, slot, startIndex, allowDeadSlots) ==
    slotEntries(d, slot, startIndex, allowDeadSlots,
                getCompletedRanges(d, slot, startIndex), IsSlotDead(d, slot))

\* blockOf that does not look at the error of GetSlotEntries
blockOfPartial(got, se) ==
    LET meta == got.meta
        entries == se.entries
        leak == got.leak + se.leak
        Fail(e, l) == [block |-> NoBlock, err |-> e, hasBlock |-> FALSE, leak |-> l]
    IN IF got.err # "nil" THEN Fail(got.err, got.leak)
       ELSE IF ~IsFull(meta) THEN Fail("ErrNotFound", got.leak)
       ELSE IF Len(entries) = 0 THEN Fail("ErrNotFound", leak)
       ELSE [block |-> [BlockHash |-> entries[Len(entries)].Hash,
                        ParentSlot |-> meta.ParentSlot,
                        Transactions |->
                            Concat([k \in 1..Len(entries) |-> entries[k].Transactions])],
             err |-> "nil", hasBlock |-> TRUE, leak |-> leak]

\* GetBlock after GetSlotMeta returned got; se is what GetSlotEntries returns,
\* which is called when the meta is full
blockOf(got, se) ==
    LET meta == got.meta
        entries == se.entries
        leak == got.leak + se.leak
        Fail(e, l) == [block |-> NoBlock, err |-> e, hasBlock |-> FALSE, leak |-> l]
    IN IF got.err # "nil" THEN Fail(got.err, got.leak)
       ELSE IF ~IsFull(meta) THEN Fail("ErrNotFound", got.leak)
       ELSE IF se.err # "nil" THEN Fail(se.err, leak)
       ELSE IF Len(entries) = 0 THEN Fail("ErrNotFound", leak)
       ELSE [block |-> [BlockHash |-> entries[Len(entries)].Hash,
                        ParentSlot |-> meta.ParentSlot,
                        Transactions |->
                            Concat([k \in 1..Len(entries) |-> entries[k].Transactions])],
             err |-> "nil", hasBlock |-> TRUE, leak |-> leak]

GetBlock(d, slot) ==
    blockOf(GetSlotMeta(d, slot), GetSlotEntries(d, slot, 0, FALSE))

(***************************************************************************)
(* The databases the handle is opened on.                                  *)
(***************************************************************************)
Slots == {1, 2}
Indexes == 0..MaxIdx

\* the bytes of a data shred whose size field covers its whole body
ShredBytes(variant, index, flags, body) ==
    [body |-> body, flags |-> flags, index |-> index,
     len |-> DataHeaderLen + Len(body), size |-> DataHeaderLen + Len(body), variant |-> variant]

\* the byte that encodes the entry of the shred at index i
EntryByte(i) == i + 1

\* one complete block holding one entry
H1c(i) == ShredBytes(LegacyDataID, i, FlagDataCompleteShred, <<1, EntryByte(i)>>)
\* one complete block holding no entry
H0c(i) == ShredBytes(MerkleDataID + 2, i, FlagDataCompleteShred, <<0>>)
\* the first shred of a block of two entries
H2p(i) == ShredBytes(LegacyDataID, i, 1, <<2, EntryByte(i)>>)
\* a shred that continues a block
Tp(i) == ShredBytes(LegacyDataID, i, 1, <<EntryByte(i)>>)
\* the last shred of a block, the last of the slot at MaxIdx
Tc(i) ==
    ShredBytes(MerkleDataID + 2, i,
               IF i = MaxIdx THEN FlagLastShredInSlot ELSE FlagDataCompleteShred,
               <<EntryByte(i)>>)
\* bytes with an unknown variant
BadVariant(i) == ShredBytes(0, i, FlagDataCompleteShred, <<1, EntryByte(i)>>)
\* a data shred whose size field exceeds its length
BadFrame(i) ==
    [body |-> <<1>>, flags |-> FlagDataCompleteShred, index |-> i,
     len |-> DataHeaderLen + 1, size |-> DataHeaderLen + 2, variant |-> LegacyDataID]

\* the rows a slot may hold at index i, "" for no row
RowKinds == {"", "H1c", "Tc"}

Row(kind, i) ==
    CASE kind = "H1c" -> H1c(i)
      [] kind = "H0c" -> H0c(i)
      [] kind = "H2p" -> H2p(i)
      [] kind = "Tp" -> Tp(i)
      [] kind = "Tc" -> Tc(i)
      [] kind = "Bad" -> BadVariant(i)
      [] kind = "Frame" -> BadFrame(i)

\* the data-shred column that holds, for slot 1 and slot 2, the rows of the
\* kinds k1[i] and k2[i]
ShredColumn(k1, k2) ==
    LET kinds == [s \in Slots |-> IF s = 1 THEN k1 ELSE k2]
        keys == {MakeShredKey(s, i) : s \in Slots, i \in Indexes}
        held_ == {k \in keys : kinds[KeySlot(k)][KeyIndex(k)] # ""}
    IN [k \in held_ |-> Row(kinds[KeySlot(k)][KeyIndex(k)], KeyIndex(k))]

AllOf(kind) == [i \in Indexes |-> kind]

\* a meta column that holds m for slot 1, or nothing when m is nil
MetaColumn(m) == IF m.nil THEN <<>> ELSE (MakeSlotKey(1) :> m)

DeadColumn(v) == IF v = <<>> THEN <<>> ELSE (MakeSlotKey(1) :> v)

Database(meta, dead, shred, root, height) ==
    [dead |-> dead, height |-> height, meta |-> meta, root |-> root, shred |-> shred]

\* the full meta whose only completed index is the last one, and the one whose
\* every index is completed
OneBlockMeta == SlotMeta(MaxIdx + 1, MaxIdx, 0, <<MaxIdx>>)
SingleShredBlocksMeta == SlotMeta(MaxIdx + 1, MaxIdx, 0, Ascending(Indexes))

\* databases whose data-shred column varies
ShredWide ==
    { Database(MetaColumn(m), <<>>, ShredColumn(k1, k2), {1}, (1 :> <<4, 0>>)) :
        m \in {OneBlockMeta, SingleShredBlocksMeta},
        k1 \in [Indexes -> RowKinds],
        k2 \in {AllOf(""), AllOf("H1c")} }

\* the values of the fields of a meta: every stored index, and the largest uint32
IndexValues == Indexes \cup {U32 - 1}

Metas ==
    { SlotMeta(consumed, lastIndex, 0, Ascending(completed)) :
        consumed \in (0..(MaxIdx + 1)) \cup {U32},
        lastIndex \in IndexValues \cup {MaxUint64},
        completed \in SUBSET IndexValues }

\* databases whose meta column varies
MetaWide ==
    { Database(MetaColumn(m), <<>>, ShredColumn(AllOf("H1c"), AllOf("")), {1}, <<>>) :
        m \in {x \in Metas : x.LastIndex \in {MaxUint64, Sub64(x.Consumed, 1), x.Consumed}} }

\* databases whose root, block-height and dead-slot columns vary
RootWide ==
    { Database(MetaColumn(m), DeadColumn(dead), ShredColumn(k1, AllOf("")), rh[1], rh[2]) :
        m \in {NilMeta, OneBlockMeta, SingleShredBlocksMeta},
        dead \in {<<>>, <<1>>, <<0>>, <<1, 0>>},
        k1 \in {AllOf("H1c"), AllOf("H0c"), AllOf("Frame"), AllOf("Bad"), AllOf("Tp"),
                [i \in Indexes |-> IF i = 0 THEN "H2p" ELSE "Tc"]},
        rh \in {<<{}, <<>>>>, <<{1, 2}, (1 :> <<4, 0>>) @@ (2 :> <<1, 1>>)>>} }

Databases == ShredWide \cup MetaWide \cup RootWide

(***************************************************************************)
(* The state: db is the view of the handle, held counts the engine         *)
(* iterators and value slices that completed calls still hold, call is     *)
(* the last call with its arguments and what it returned, primary is the   *)
(* store of the writer the handle is attached to, and handle is the mode   *)
(* of the handle with the GetBlock that is in progress on it.              *)
(***************************************************************************)
NoResult ==
    [block |-> NoBlock, entries |-> <<>>, err |-> "nil", full |-> FALSE, hasBlock |-> FALSE,
     kind |-> "", n |-> 0, payload |-> <<>>, ranges |-> <<>>, val |-> 0,
     visited |-> <<>>, yes |-> FALSE]

Call(fn, slot, a, b, flag, list, res) ==
    [a |-> a, b |-> b, flag |-> flag, fn |-> fn, list |-> list, res |-> res,
     slot |-> slot]

NoCall == Call("none", 0, 0, 0, FALSE, <<>>, NoResult)

EmptyDatabase == Database(<<>>, <<>>, <<>>, {}, <<>>)

\* A handle on which no GetBlock is in progress: mode is how it was opened,
\* opened the store as it was then.  While a GetBlock runs, pc is its
\* position, snapshot the view at its first read, got and cr what its two
\* reads of the meta returned, k the range it reads next, entries the entries
\* read so far, and caught whether a catch-up ran since it began.
IdleHandle(mode, opened) ==
    [caught |-> FALSE,
     cr |-> [err |-> "nil", leak |-> 0, meta |-> NilMeta, ranges |-> <<>>],
     entries |-> <<>>,
     got |-> [err |-> "nil", leak |-> 0, meta |-> NilMeta],
     k |-> 0, mode |-> mode, opened |-> opened, pc |-> "idle", slot |-> 0,
     snapshot |-> opened]

NoHandle == IdleHandle("none", EmptyDatabase)

\* a call is made while the process runs (a call that panicked ended it) and
\* completed calls hold fewer than MaxHeld resources
Ready ==
    /\ call.res.err # "panic"
    /\ held < MaxHeld

\* a call returns, leaving leak more resources held
Returns(c, leak) ==
    /\ held' = held + leak
    /\ call' = c
    /\ UNCHANGED <<db, primary, handle>>

Init ==
    /\ db \in Databases
    /\ held = 0
    /\ call = NoCall
    /\ primary = db
    /\ handle = NoHandle

MaxRootResult(r) ==
    Call("MaxRoot", 0, 0, 0, FALSE, <<>>, [NoResult EXCEPT !.err = r.err, !.val = r.val])

MaxRootCall ==
    /\ Ready
    /\ Returns(MaxRootResult(MaxRoot(db)), MaxRoot(db).leak)

GetBlockHeightResult(r) ==
    Call("GetBlockHeight", 0, 0, 0, FALSE, <<>>,
         [NoResult EXCEPT !.err = r.err, !.val = r.val])

GetBlockHeightCall ==
    /\ Ready
    /\ Returns(GetBlockHeightResult(GetBlockHeight(db)), GetBlockHeight(db).leak)

IsSlotDeadResult(slot, r) ==
    Call("IsSlotDead", slot, 0, 0, FALSE, <<>>,
         [NoResult EXCEPT !.err = r.err, !.yes = r.val])

IsSlotDeadCall ==
    /\ Ready
    /\ \E slot \in Slots :
        Returns(IsSlotDeadResult(slot, IsSlotDead(db, slot)), IsSlotDead(db, slot).leak)

GetEntriesInDataBlockResult(slot, startIndex, endIndex, r) ==
    Call("GetEntriesInDataBlock", slot, startIndex, endIndex, FALSE, <<>>,
         [NoResult EXCEPT !.err = r.err, !.entries = r.entries, !.visited = r.visited])

GetEntriesInDataBlockCall ==
    /\ Ready
    /\ \E slot \in Slots, startIndex \in Indexes, endIndex \in Indexes :
        /\ startIndex <= endIndex
        /\ Returns(GetEntriesInDataBlockResult(slot, startIndex, endIndex,
                       GetEntriesInDataBlock(db, slot, startIndex, endIndex)),
                   GetEntriesInDataBlock(db, slot, startIndex, endIndex).leak)

GetSlotEntriesResult(slot, startIndex, allowDeadSlots, r) ==
    Call("GetSlotEntries", slot, startIndex, 0, allowDeadSlots, <<>>,
         [NoResult EXCEPT !.err = r.err, !.entries = r.entries, !.n = r.numShreds,
                          !.full = r.isFull, !.ranges = r.ranges])

\* the uint64 start indexes a caller passes: the stored indexes, and the
\* smallest value that does not fit in a uint32
StartIndexes == Indexes \cup {U32}

GetSlotEntriesCall ==
    /\ Ready
    /\ \E slot \in Slots, startIndex \in StartIndexes, allowDeadSlots \in BOOLEAN :
        Returns(GetSlotEntriesResult(slot, startIndex, allowDeadSlots,
                    GetSlotEntries(db, slot, startIndex, allowDeadSlots)),
                GetSlotEntries(db, slot, startIndex, allowDeadSlots).leak)

GetBlockResult(slot, r) ==
    Call("GetBlock", slot, 0, 0, FALSE, <<>>,
         [NoResult EXCEPT !.err = r.err, !.hasBlock = r.hasBlock, !.block = r.block])

GetBlockCall ==
    /\ Ready
    /\ \E slot \in Slots :
        Returns(GetBlockResult(slot, GetBlock(db, slot)), GetBlock(db, slot).leak)

Next ==
    \/ MaxRootCall
    \/ GetBlockHeightCall
    \/ IsSlotDeadCall
    \/ GetEntriesInDataBlockCall
    \/ GetSlotEntriesCall
    \/ GetBlockCall

Spec == Init /\ [][Next]_vars

(***************************************************************************)
(* The pure functions on their own: the range computation on every list    *)
(* of a pool of values, Deshred on every short sequence of a pool of data  *)
(* shreds, and LastInSlot on every flags byte.                             *)
(***************************************************************************)
PureInit ==
    /\ db = EmptyDatabase
    /\ held = 0
    /\ call = NoCall
    /\ primary = db
    /\ handle = NoHandle

\* the result of the one call of a pure function the behaviour makes
PureReturns(c) ==
    /\ call' = c
    /\ UNCHANGED <<db, held, primary, handle>>

\* the uint32 values of the range computation's inputs
RangeValues == (0..MaxVal) \cup {5, 9, 10, 12}

getCompletedDataRangesCall ==
    /\ call = NoCall
    /\ \E startIndex \in RangeValues, consumed \in RangeValues, idxs \in SUBSET RangeValues :
        PureReturns(Call("getCompletedDataRanges", 0, startIndex, consumed, FALSE,
                         Ascending(idxs),
                         [NoResult EXCEPT !.ranges =
                             getCompletedDataRanges(startIndex, Ascending(idxs), consumed)]))

RangesNext == getCompletedDataRangesCall

SpecRanges == PureInit /\ [][RangesNext]_vars

\* parsed data shreds with valid framing, and one whose size exceeds its length
DeshredShreds ==
    { NewShredFromSerialized(ShredBytes(LegacyDataID, index, flags, <<index, flags>>)) :
        index \in {5, 6, 7}, flags \in {1, 64, 128, 192} }
    \cup { NewShredFromSerialized(BadFrame(6)) }

RECURSIVE SeqsUpTo(_, _)
SeqsUpTo(S, n) ==
    IF n = 0 THEN {<<>>}
    ELSE LET shorter == SeqsUpTo(S, n - 1)
         IN shorter \cup {Append(q, x) : q \in {r \in shorter : Len(r) = n - 1}, x \in S}

DeshredResult(shreds, r) ==
    Call("Deshred", 0, 0, 0, FALSE, shreds,
         [NoResult EXCEPT !.err = r.err, !.payload = r.payload])

DeshredCall ==
    /\ call = NoCall
    /\ \E shreds \in SeqsUpTo(DeshredShreds, MaxShreds) :
        PureReturns(DeshredResult(shreds, Deshred(shreds)))

LastInSlotCall ==
    /\ call = NoCall
    /\ \E flags \in 0..255 :
        PureReturns(Call("LastInSlot", 0, flags, 0, FALSE, <<>>,
                         [NoResult EXCEPT !.yes = LastInSlot(flags)]))

\* the lengths of the byte slices handed to NewShredFromSerialized
SerializedLens == {0, VariantLen - 1, VariantLen, DataHeaderLen + 1}

\* a slice of the given length whose byte 64, if it has one, is variant
Serialized(variant, len) ==
    [body |-> <<>>, flags |-> 0, index |-> 0, len |-> len, size |-> len,
     variant |-> variant]

NewShredFromSerializedCall ==
    /\ call = NoCall
    /\ \E variant \in 0..255, len \in SerializedLens :
        PureReturns(Call("NewShredFromSerialized", 0, variant, len, FALSE, <<>>,
                         [NoResult EXCEPT !.kind =
                             NewShredFromSerialized(Serialized(variant, len)).kind]))

ShredNext ==
    \/ DeshredCall
    \/ LastInSlotCall
    \/ NewShredFromSerializedCall

SpecShred == PureInit /\ [][ShredNext]_vars

(***************************************************************************)
(* A handle next to a primary that keeps writing.  primary is the store of *)
(* the writer, db the view of the handle; a GetBlock on the handle makes   *)
(* its reads one at a time, and writes of the primary and catch-ups of the *)
(* handle may come between any two of them.                                *)
(***************************************************************************)
\* a meta of a slot that is not full yet
PartialMeta == SlotMeta(1, MaxUint64, 0, <<0>>)

\* the store in which slot 1 has the meta m and its first n data shreds
SlotStore(m, n) ==
    Database(MetaColumn(m), <<>>,
             ShredColumn([i \in Indexes |-> IF i < n THEN "H1c" ELSE ""], AllOf("")),
             {}, <<>>)

\* the stores the primary moves through: the slot has no meta, a meta that is
\* not full or a full one, and none, the first or all of its data shreds
Stores ==
    { SlotStore(m, n) : m \in {NilMeta, PartialMeta, SingleShredBlocksMeta},
                        n \in {0, 1, MaxIdx + 1} }

HandleModes == {"readonly", "secondary"}

SnapshotInit ==
    /\ primary \in Stores
    /\ db = primary
    /\ held = 0
    /\ call = NoCall
    /\ \E mode \in HandleModes : handle = IdleHandle(mode, primary)

\* the primary writes: rows are put, a slot is purged
PrimaryWrite ==
    /\ \E s \in Stores : s # primary /\ primary' = s
    /\ UNCHANGED <<db, held, call, handle>>

\* a catch-up that also moves the view of a read-only handle
TryCatchUpWithPrimaryAnyMode(mode, view, store) ==
    store

\* the view after a catch-up: the primary's store for a secondary handle, and
\* the same view for a read-only handle, which cannot catch up
TryCatchUpWithPrimary(mode, view, store) ==
    IF mode = "secondary" THEN store ELSE view

InProgress == handle.pc \in {"ranges", "entries"}

TryCatchUpWithPrimaryCall ==
    /\ db' = TryCatchUpWithPrimary(handle.mode, db, primary)
    /\ handle' = [handle EXCEPT !.caught = @ \/ InProgress]
    /\ UNCHANGED <<held, call, primary>>

\* what GetSlotEntries hands to GetBlock
SlotEntriesOf(entries, e) ==
    [entries |-> entries, err |-> e, isFull |-> FALSE, leak |-> 0,
     numShreds |-> 0, ranges |-> <<>>]

\* GetBlock returns r
GetBlockDone(h, r) ==
    /\ handle' = [h EXCEPT !.pc = "done"]
    /\ call' = GetBlockResult(h.slot, r)

\* GetBlock begins and reads the meta; it returns at once when there is none
\* or when it is not full, and until it returns the caller has no result
GetBlockReadsMeta ==
    /\ Ready
    /\ handle.pc \in {"idle", "done"}
    /\ \E slot \in {1} :
        LET got == GetSlotMeta(db, slot)
            h == [IdleHandle(handle.mode, handle.opened) EXCEPT
                      !.got = got, !.slot = slot, !.snapshot = db]
        IN /\ held' = held + got.leak
           /\ IF got.err # "nil" \/ ~IsFull(got.meta)
              THEN GetBlockDone(h, blockOf(got, SlotEntriesOf(<<>>, "nil")))
              ELSE /\ handle' = [h EXCEPT !.pc = "ranges"]
                   /\ call' = NoCall
    /\ UNCHANGED <<db, primary>>

\* GetSlotEntries begins: getCompletedRanges reads the meta a second time
GetBlockReadsRanges ==
    /\ handle.pc = "ranges"
    /\ LET cr == getCompletedRanges(db, handle.slot, 0)
       IN /\ held' = held + cr.leak
          /\ IF cr.err # "nil"
             THEN GetBlockDone(handle, blockOf(handle.got, SlotEntriesOf(<<>>, cr.err)))
             ELSE /\ handle' = [handle EXCEPT !.cr = cr, !.k = 1, !.pc = "entries"]
                  /\ call' = call
    /\ UNCHANGED <<db, primary>>

\* the loop of GetSlotEntries reads one range through an iterator of its own
GetBlockReadsRange ==
    /\ handle.pc = "entries"
    /\ handle.k <= Len(handle.cr.ranges)
    /\ LET range == handle.cr.ranges[handle.k]
           sub == GetEntriesInDataBlock(db, handle.slot, range.StartIndex, range.EndIndex)
       IN /\ held' = held + sub.leak
          /\ IF sub.err # "nil"
             THEN GetBlockDone(handle,
                      blockOf(handle.got, SlotEntriesOf(handle.entries, sub.err)))
             ELSE /\ handle' = [handle EXCEPT !.entries = @ \o sub.entries,
                                             !.k = @ + 1]
                  /\ call' = call
    /\ UNCHANGED <<db, primary>>

\* the loop is over: GetSlotEntries asks the second meta whether it is full
\* and GetBlock builds the block
GetBlockReturns ==
    /\ handle.pc = "entries"
    /\ handle.k > Len(handle.cr.ranges)
    /\ GetBlockDone(handle,
           blockOf(handle.got,
                   IF handle.cr.meta.nil THEN SlotEntriesOf(<<>>, "panic")
                   ELSE SlotEntriesOf(handle.entries, "nil")))
    /\ UNCHANGED <<db, held, primary>>

SnapshotNext ==
    \/ PrimaryWrite
    \/ TryCatchUpWithPrimaryCall
    \/ GetBlockReadsMeta
    \/ GetBlockReadsRanges
    \/ GetBlockReadsRange
    \/ GetBlockReturns

SpecSnapshot == SnapshotInit /\ [][SnapshotNext]_vars

(***************************************************************************)
(* Properties of the pure functions                                        *)
(***************************************************************************)
\* the elements of idxs inside [start, consumed), in order
KeptIndexes(idxs, start, consumed) ==
    SelectSeq(idxs, LAMBDA x : start <= x /\ x < consumed)

\* C4: getCompletedDataRanges(start, idxs, consumed) on ascending idxs returns
\* one range per element of idxs inside [start, consumed), in order; the i-th
\* range (from 0) ends at that element and starts at start + i.  With start 3,
\* idxs [5, 9, 12] and consumed 10 the result is [(3, 5), (4, 9)].
C4_RangesFollowKeptIndexes ==
    call.fn = "getCompletedDataRanges" =>
        LET kept == KeptIndexes(call.list, call.a, call.b)
            ranges == call.res.ranges
        IN /\ Len(ranges) = Len(kept)
           /\ \A i \in 1..Len(kept) :
                  /\ ranges[i].EndIndex = kept[i]
                  /\ ranges[i].StartIndex = call.a + (i - 1)
           /\ (call.a = 3 /\ call.list = <<5, 9, 12>> /\ call.b = 10) =>
                  ranges = <<CompletedRange(3, 5), CompletedRange(4, 9)>>

\* the call of the example has returned its two ranges
C4_ExampleReturned ==
    /\ call.fn = "getCompletedDataRanges"
    /\ call.a = 3
    /\ call.list = <<5, 9, 12>>
    /\ call.b = 10
    /\ Len(call.res.ranges) = 2

\* the shreds are contiguous from the first one's index
Contiguous(shreds) ==
    \A i \in 1..Len(shreds) : shreds[i].index = shreds[1].index + (i - 1)

\* the last shred is flagged data-complete (0x40) or last-in-slot (0xC0)
LastIsFlagged(shreds) ==
    LET flags == shreds[Len(shreds)].flags
    IN \/ BitAnd(flags, 64) # 0
       \/ BitAnd(flags, 192) = 192

\* C5: Deshred on data shreds with well-framed payloads succeeds if and only
\* if there is at least one shred, the indices are contiguous and the last
\* shred has flags & 0x40 # 0 or flags & 0xC0 = 0xC0; the output is then the
\* concatenation of the data regions, and otherwise the result is TooFewDataShreds.
C5_DeshredIffContiguousAndFlagged ==
    (/\ call.fn = "Deshred"
     /\ \A i \in 1..Len(call.list) : Data(call.list[i]).ok) =>
        LET shreds == call.list
            good == /\ Len(shreds) >= 1
                    /\ Contiguous(shreds)
                    /\ LastIsFlagged(shreds)
        IN IF good
           THEN /\ call.res.err = "nil"
                /\ call.res.payload =
                       Concat([i \in 1..Len(shreds) |-> Data(shreds[i]).data])
           ELSE call.res.err = "ErrTooFewDataShreds"

\* C8: a data shred is last-in-slot exactly when flags & 0xC0 = 0xC0; a
\* shred with just 0x40 or just 0x80 set is not last-in-slot.
C8_LastInSlotNeedsBothBits ==
    call.fn = "LastInSlot" =>
        (call.res.yes <=> BitAnd(call.a, 192) = 192)

(***************************************************************************)
(* Properties of the blockstore reads                                      *)
(***************************************************************************)
\* the row stored under shred key (slot, index) parses to a data shred of
\* that index whose payload is well framed
GoodShredAt(slot, index) ==
    /\ MakeShredKey(slot, index) \in DOMAIN db.shred
    /\ LET s == NewShredFromSerialized(db.shred[MakeShredKey(slot, index)])
       IN /\ IsDataShred(s)
          /\ Data(s).ok
          /\ s.index = index

\* the data regions of the shreds stored at (slot, s) .. (slot, e), joined
RangePayload(slot, s, e) ==
    Concat([i \in 1..(e - s + 1) |->
                Data(NewShredFromSerialized(
                         db.shred[MakeShredKey(slot, s + i - 1)])).data])

\* every key (slot, s) .. (slot, e) holds a good shred, the last of them is
\* flagged complete or last-in-slot, and the joined payload decodes
GoodRange(slot, s, e) ==
    /\ s <= e
    /\ \A i \in s..e : GoodShredAt(slot, i)
    /\ BitAnd(NewShredFromSerialized(db.shred[MakeShredKey(slot, e)]).flags,
              FlagDataCompleteShred) # 0
    /\ Decode(RangePayload(slot, s, e)).err = "nil"

\* the slot's meta row is present with consumed = last_index + 1 and
\* completed_data_indexes = [last_index]
OneBlockSlot(slot) ==
    /\ MakeSlotKey(slot) \in DOMAIN db.meta
    /\ LET m == db.meta[MakeSlotKey(slot)]
       IN /\ m.LastIndex # MaxUint64
          /\ m.LastIndex < U32 - 1
          /\ m.Consumed = m.LastIndex + 1
          /\ m.CompletedDataIndexes = <<m.LastIndex>>

\* C1: GetEntriesInDataBlock(slot, s, e) with s <= e walks the shred keys
\* (slot, s), (slot, s+1), ..., (slot, e) in order, reading one shred at each,
\* so a range of good shreds yields its entries; GetBlock on a slot whose
\* meta has completed_data_indexes = [last_index] and good shreds at
\* 0..last_index returns a Block with the hash of the last decoded entry, the
\* meta's parent_slot and the entries' transactions in order.
C1_RangeWalksEveryKey ==
    /\ (call.fn = "GetEntriesInDataBlock" /\ GoodRange(call.slot, call.a, call.b)) =>
           /\ call.res.err = "nil"
           /\ call.res.visited =
                  [i \in 1..(call.b - call.a + 1) |->
                       MakeShredKey(call.slot, call.a + i - 1)]
           /\ call.res.entries =
                  Decode(RangePayload(call.slot, call.a, call.b)).entries
    /\ (/\ call.fn = "GetBlock"
        /\ OneBlockSlot(call.slot)
        /\ GoodRange(call.slot, 0, db.meta[MakeSlotKey(call.slot)].LastIndex)) =>
           LET m == db.meta[MakeSlotKey(call.slot)]
               entries == Decode(RangePayload(call.slot, 0, m.LastIndex)).entries
           IN Len(entries) > 0 =>
                  /\ call.res.hasBlock
                  /\ call.res.block =
                         [BlockHash |-> entries[Len(entries)].Hash,
                          ParentSlot |-> m.ParentSlot,
                          Transactions |->
                              Concat([k \in 1..Len(entries) |->
                                          entries[k].Transactions])]

\* the dead-slot column marks the slot dead
MarkedDead(slot) ==
    /\ MakeSlotKey(slot) \in DOMAIN db.dead
    /\ db.dead[MakeSlotKey(slot)] = <<1>>

\* C2: GetSlotEntries(slot, start, allow_dead_slots) fails with DeadSlot when
\* allow_dead_slots is false and the slot is marked dead, and never fails
\* with DeadSlot when allow_dead_slots is true; GetBlock never returns a block
\* for a slot marked dead.
C2_DeadSlotsRefusedUnlessAllowed ==
    /\ (call.fn = "GetSlotEntries" /\ ~call.flag /\ MarkedDead(call.slot)) =>
           call.res.err = "ErrDeadSlot"
    /\ (call.fn = "GetSlotEntries" /\ call.flag) =>
           call.res.err # "ErrDeadSlot"
    /\ (call.fn = "GetBlock" /\ MarkedDead(call.slot)) => ~call.res.hasBlock

\* C3: GetSlotEntries on a slot with no meta row returns normally with an
\* empty entry list, num_shreds = 0 and is_full = false.
C3_AbsentMetaReturnsEmpty ==
    (call.fn = "GetSlotEntries" /\ MakeSlotKey(call.slot) \notin DOMAIN db.meta) =>
        /\ call.res.err = "nil"
        /\ call.res.entries = <<>>
        /\ call.res.n = 0
        /\ call.res.full = FALSE

\* C7: when some key (slot, i) of the range has no row, GetEntriesInDataBlock
\* fails with InvalidShredData, also when a later slot has a shred of index i;
\* a returned entry list is never built from a shred of another slot's key.
C7_MissingShredIsInvalidShredData ==
    call.fn = "GetEntriesInDataBlock" =>
        /\ (\E i \in call.a..call.b :
                MakeShredKey(call.slot, i) \notin DOMAIN db.shred) =>
               call.res.err = "ErrInvalidShredData"
        /\ call.res.err = "nil" =>
               \A k \in 1..Len(call.res.visited) :
                   KeySlot(call.res.visited[k]) = call.slot

\* C10: every iterator and every value slice obtained from the database has
\* been released when an operation has returned, on every path.
C10_NothingHeldAfterReturn ==
    held = 0

\* the slot's meta row is present and full: last_index is known and
\* consumed = last_index + 1
MetaFull(slot) ==
    /\ MakeSlotKey(slot) \in DOMAIN db.meta
    /\ db.meta[MakeSlotKey(slot)].LastIndex # MaxUint64
    /\ db.meta[MakeSlotKey(slot)].Consumed = db.meta[MakeSlotKey(slot)].LastIndex + 1

\* GetSlotEntries(slot, 0, false) has returned without error on a full meta
FullSlotEntriesReturned ==
    /\ call.fn = "GetSlotEntries"
    /\ call.a = 0
    /\ ~call.flag
    /\ MetaFull(call.slot)
    /\ call.res.err = "nil"

\* the completed data indexes of the meta below its consumed narrowed to 32 bits
CompletedBelowConsumed(m) ==
    { m.CompletedDataIndexes[k] : k \in 1..Len(m.CompletedDataIndexes) }
        \cap (0..(ToU32(m.Consumed) - 1))

\* C6 as stated: for every slot whose meta is full, GetSlotEntries(slot, 0,
\* false) either fails or returns num_shreds equal to meta.consumed.
C6_FullSlotReturnsConsumed ==
    FullSlotEntriesReturned => call.res.n = db.meta[MakeSlotKey(call.slot)].Consumed

\* C6: for every slot whose meta is full, GetSlotEntries(slot, 0, false)
\* either fails or returns num_shreds equal to one more than the largest
\* completed data index below consumed (narrowed to 32 bits), 0 when there is
\* none; that is meta.consumed when completed_data_indexes contains
\* last_index and consumed is below 2^32.
C6_FullSlotReturnsLastCompleted ==
    FullSlotEntriesReturned =>
        LET m == db.meta[MakeSlotKey(call.slot)]
            below == CompletedBelowConsumed(m)
        IN /\ call.res.n =
                  IF below = {} THEN 0
                  ELSE 1 + CHOOSE x \in below : \A y \in below : y <= x
           /\ (m.LastIndex \in below /\ m.Consumed < U32) => call.res.n = m.Consumed

\* a full slot every shred of which closes a data block was read to its end
C6_FullSlotRead ==
    /\ FullSlotEntriesReturned
    /\ db.meta[MakeSlotKey(call.slot)].LastIndex
           \in CompletedBelowConsumed(db.meta[MakeSlotKey(call.slot)])
    /\ call.res.n = db.meta[MakeSlotKey(call.slot)].Consumed
    /\ call.res.n > 1

\* the completed ranges GetBlock asks for, and the read of the k-th of them
SlotRanges(slot) == getCompletedRanges(db, slot, 0).ranges

RangeRead(slot, k) ==
    GetEntriesInDataBlock(db, slot, SlotRanges(slot)[k].StartIndex,
                          SlotRanges(slot)[k].EndIndex)

FailedRanges(slot) ==
    { k \in 1..Len(SlotRanges(slot)) : RangeRead(slot, k).err # "nil" }

FirstFailedRange(slot) ==
    CHOOSE k \in FailedRanges(slot) : \A j \in FailedRanges(slot) : k <= j

\* C9: GetBlock(slot) returns a Block only when the slot's meta exists and is
\* full, every completed range was read without error and the entry list is
\* not empty; when the meta is absent or not full, or the entry list is empty,
\* it returns NotFound; when a range fails it returns the first such error
\* and no Block.
C9_BlockOnlyFromCompleteRead ==
    call.fn = "GetBlock" =>
        LET slot == call.slot
            entries == Concat([k \in 1..Len(SlotRanges(slot)) |->
                                   RangeRead(slot, k).entries])
        IN /\ call.res.hasBlock =>
                  /\ MetaFull(slot)
                  /\ FailedRanges(slot) = {}
                  /\ entries # <<>>
                  /\ call.res.err = "nil"
           /\ ~MetaFull(slot) =>
                  /\ call.res.err = "ErrNotFound"
                  /\ ~call.res.hasBlock
           /\ (MetaFull(slot) /\ FailedRanges(slot) # {}) =>
                  /\ call.res.err = RangeRead(slot, FirstFailedRange(slot)).err
                  /\ ~call.res.hasBlock
           /\ (MetaFull(slot) /\ FailedRanges(slot) = {} /\ entries = <<>>) =>
                  /\ call.res.err = "ErrNotFound"
                  /\ ~call.res.hasBlock

\* GetBlock gave no block after a range failed behind one that was read
C9_LaterRangeFailed ==
    /\ call.fn = "GetBlock"
    /\ MetaFull(call.slot)
    /\ FailedRanges(call.slot) # {}
    /\ FirstFailedRange(call.slot) > 1
    /\ ~call.res.hasBlock
    /\ call.res.err = "ErrInvalidShredData"

(***************************************************************************)
(* Properties of the shred dispatch                                        *)
(***************************************************************************)
\* the variants whose discriminant test the byte v passes
MatchingVariants(v) ==
    { k \in {"LegacyCode", "LegacyData", "MerkleCode", "MerkleData"} :
        \/ k = "LegacyCode" /\ v = 90
        \/ k = "LegacyData" /\ v = 165
        \/ k = "MerkleCode" /\ v \div 16 = 4
        \/ k = "MerkleData" /\ v \div 16 = 8 }

\* C12: NewShredFromSerialized(b) returns no shred when len(b) < 65 or when
\* b[64] passes none of the four discriminant tests, and otherwise the one
\* variant whose test b[64] passes; no byte passes two tests, so the order of
\* the tests does not matter (0xA5 gives LegacyData, 0x82 gives MerkleData).
C12_DispatchByVariantByte ==
    call.fn = "NewShredFromSerialized" =>
        LET v == call.a
            len == call.b
        IN /\ Cardinality(MatchingVariants(v)) <= 1
           /\ (len < 65 \/ MatchingVariants(v) = {}) => call.res.kind = "nil"
           /\ (len >= 65 /\ MatchingVariants(v) # {}) =>
                  call.res.kind \in MatchingVariants(v)
           /\ (len >= 65 /\ v = 165) => call.res.kind = "LegacyData"
           /\ (len >= 65 /\ v = 130) => call.res.kind = "MerkleData"

\* a slice long enough whose byte 64 is 0x82 was parsed as a Merkle data shred
C12_MerkleDataParsed ==
    /\ call.fn = "NewShredFromSerialized"
    /\ call.a = 130
    /\ call.b >= 65
    /\ call.res.kind = "MerkleData"

(***************************************************************************)
(* Properties of the errors of GetEntriesInDataBlock                       *)
(***************************************************************************)
\* the shred parsed from the row under key (slot, index)
ShredAt(slot, index) ==
    NewShredFromSerialized(db.shred[MakeShredKey(slot, index)])

\* every key (slot, s) .. (slot, e) has a row
RowsPresent(slot, s, e) ==
    \A i \in s..e : MakeShredKey(slot, i) \in DOMAIN db.shred

\* the rows of the range parse to contiguous shreds the last of which is
\* flagged, and the data of one of them is badly framed
BadlyFramedRange(slot, s, e) ==
    /\ RowsPresent(slot, s, e)
    /\ \A i \in s..e : ShredAt(slot, i).kind # "nil" /\ ShredAt(slot, i).index = i
    /\ BitAnd(ShredAt(slot, e).flags, FlagDataCompleteShred) # 0
    /\ \E i \in s..e : ~Data(ShredAt(slot, i)).ok

\* C13: every failure of GetEntriesInDataBlock caused by shred bytes is the
\* typed error InvalidShredData: when the row found at the expected index does
\* not parse, and when Deshred meets a shred whose data is badly framed.
C13_ShredBytesFailAsInvalidShredData ==
    call.fn = "GetEntriesInDataBlock" =>
        /\ (/\ RowsPresent(call.slot, call.a, call.b)
            /\ \E i \in call.a..call.b : ShredAt(call.slot, i).kind = "nil") =>
               call.res.err = "ErrInvalidShredData"
        /\ BadlyFramedRange(call.slot, call.a, call.b) =>
               call.res.err = "ErrInvalidShredData"

(***************************************************************************)
(* Properties of the integer widths                                        *)
(***************************************************************************)
\* the completed ranges computed on the 64-bit values, nothing narrowed
WideRanges(start, idxs, consumed) ==
    LET kept == KeptIndexes(idxs, start, consumed)
    IN [i \in 1..Len(kept) |-> CompletedRange(start + (i - 1), kept[i])]

\* C14: for every 64-bit startIndex and every 64-bit meta.Consumed,
\* GetSlotEntries computes the completed ranges it would compute without
\* narrowing either value to 32 bits, and num_shreds does not wrap: whenever
\* there is a range, startIndex <= last end_index < meta.Consumed and
\* 1 <= num_shreds <= meta.Consumed - startIndex.
C14_NarrowingChangesNothing ==
    (/\ call.fn = "GetSlotEntries"
     /\ MakeSlotKey(call.slot) \in DOMAIN db.meta
     /\ call.res.err # "ErrDeadSlot") =>
        LET m == db.meta[MakeSlotKey(call.slot)]
            ranges == call.res.ranges
        IN /\ ranges = WideRanges(call.a, m.CompletedDataIndexes, m.Consumed)
           /\ Len(ranges) > 0 =>
                  /\ call.a <= ranges[Len(ranges)].EndIndex
                  /\ ranges[Len(ranges)].EndIndex < m.Consumed
                  /\ 1 <= call.res.n
                  /\ call.res.n <= m.Consumed - call.a

(***************************************************************************)
(* Properties of the handle's view                                         *)
(***************************************************************************)
\* a GetBlock has returned on the handle
GetBlockReturned ==
    /\ handle.pc = "done"
    /\ call.fn = "GetBlock"

====
